---- MODULE Spec2Model ----
(***************************************************************************)
(* Model of the news analysis dashboard (src/py/dashboard_5_oov.py).       *)
(*                                                                         *)
(* The two tables read by load_data are sequences of records (row order    *)
(* and duplicates are kept, as in a DataFrame).  Every user interaction    *)
(* changes one widget and re-runs run_dashboard from the top, so every     *)
(* action below is "change one widget, then re-evaluate the page".         *)
(*                                                                         *)
(* Strings that the code inspects character by character (Domain, the      *)
(* search text) are sequences of one-character strings.  Score is a float  *)
(* in the code; the rows used here carry whole-number scores, and rounded  *)
(* results are kept as scaled integers (tenths of a percent, hundredths of *)
(* a score).  A null cell (NaN) is the value Null.                         *)
(***************************************************************************)
EXTENDS Integers, Sequences, FiniteSets, TLC

VARIABLES
    domain_df,            \* load_data()[0]
    posts_df,             \* load_data()[1]
    page,                 \* st.sidebar.radio "Select Analysis Type"
    filters,              \* the five sidebar widgets of the page shown
    search_text,          \* st.text_input "Search domains by text"
    exact_domain,         \* st.selectbox "Or select exact domain"
    ran,                  \* the pipeline the last re-evaluation ran
    filtered_df,          \* run_domain_analysis: filtered_df after line 161
    domain_view,          \* run_domain_analysis: filtered_df after line 232
    stats_df,             \* run_domain_analysis: stats_df
    filtered_posts,       \* run_posts_analysis: filtered_posts
    total_count_all,      \* run_posts_analysis: total_count_all
    total_count_filtered, \* run_posts_analysis: total_count_filtered
    sunburst_data,        \* run_posts_analysis: sunburst_data
    status                \* "ok", or the exception that ended the re-evaluation

vars == <<domain_df, posts_df, page, filters, search_text, exact_domain, ran,
          filtered_df, domain_view, stats_df, filtered_posts, total_count_all,
          total_count_filtered, sunburst_data, status>>

\* Longest table loaded.
MaxRows == 2

Null == "NaN"
All == "All"
NoText == <<>>

----------------------------------------------------------------------------
(* Generic helpers *)

Range(s) == {s[i] : i \in 1..Len(s)}

Min(a, b) == IF a <= b THEN a ELSE b

SetMin(S) == CHOOSE x \in S : \A y \in S : x <= y
SetMax(S) == CHOOSE x \in S : \A y \in S : x >= y

RECURSIVE SeqSum(_)
SeqSum(s) == IF s = <<>> THEN 0 ELSE Head(s) + SeqSum(Tail(s))

\* Sequences over S of length 1..n
RECURSIVE SeqsUpTo(_, _)
SeqsUpTo(S, n) ==
    IF n = 0 THEN {}
    ELSE LET shorter == SeqsUpTo(S, n - 1)
         IN  {<<x>> : x \in S} \cup shorter
               \cup {Append(t, x) : t \in {u \in shorter : Len(u) = n - 1}, x \in S}

\* numpy round: nearest, ties to even; num/den rounded to an integer
RoundHalfEven(num, den) ==
    LET q == num \div den
        r == num % den
    IN  IF 2 * r < den THEN q
        ELSE IF 2 * r > den THEN q + 1
        ELSE IF q % 2 = 0 THEN q ELSE q + 1

----------------------------------------------------------------------------
(* Character strings *)

Ord == ("." :> 46) @@ ("A" :> 65) @@ ("C" :> 67) @@ ("M" :> 77) @@ ("O" :> 79)
       @@ ("a" :> 97) @@ ("b" :> 98) @@ ("c" :> 99) @@ ("e" :> 101)
       @@ ("g" :> 103) @@ ("m" :> 109) @@ ("n" :> 110) @@ ("o" :> 111)
       @@ ("r" :> 114) @@ ("s" :> 115) @@ ("t" :> 116) @@ ("u" :> 117)

IsUpper(c) == Ord[c] >= Ord["A"] /\ Ord[c] <= Ord["O"]

Lower(c) == IF IsUpper(c)
            THEN CHOOSE x \in DOMAIN Ord : Ord[x] = Ord[c] + (Ord["a"] - Ord["A"])
            ELSE c

\* Python's str ordering: lexicographic by code point
RECURSIVE StrLess(_, _)
StrLess(s, t) ==
    IF t = <<>> THEN FALSE
    ELSE IF s = <<>> THEN TRUE
    ELSE IF Ord[Head(s)] # Ord[Head(t)] THEN Ord[Head(s)] < Ord[Head(t)]
    ELSE StrLess(Tail(s), Tail(t))

\* sorted(S) for a set of strings
RECURSIVE SortedStrs(_)
SortedStrs(S) ==
    IF S = {} THEN <<>>
    ELSE LET m == CHOOSE x \in S : \A y \in S \ {x} : StrLess(x, y)
         IN  <<m>> \o SortedStrs(S \ {m})

----------------------------------------------------------------------------
(* The data *)

a_com      == <<"a", ".", "c", "o", "m">>
A_COM      == <<"A", ".", "C", "O", "M">>
sub_a_com  == <<"s", "u", "b", ".", "a", ".", "c", "o", "m", ".", "n", "e", "t">>
abcom_net  == <<"a", "b", "c", "o", "m", ".", "n", "e", "t">>
b_org      == <<"b", ".", "o", "r", "g">>

DomainRow(d, g, s, l, t, sc, n) ==
    [Domain |-> d, Global_Classification |-> g, Sentiment |-> s,
     Local_Category |-> l, Topic_Category |-> t, Score |-> sc,
     Combination_Total_Count |-> n]

\* DomainRecord rows a loaded all_analysis_data.csv may hold
DomainRows ==
    { DomainRow(a_com,     "Democrat",   "positive", "all",       "politics", 5, 10),
      DomainRow(a_com,     "Republican", "negative", "all",       "politics", 4, 4),
      DomainRow(A_COM,     "dem",        "positive", "local",     "economy",  4, 2),
      DomainRow(abcom_net, "Both",       "negative", "all",       "economy",  4, 3),
      DomainRow(sub_a_com, "rep",        "positive", "non_local", "politics", 5, 1),
      DomainRow(b_org,     "Democratic", "negative", "local",     "economy",  5, 5) }

PostRow(p, s, l, t, sc, a) ==
    [party |-> p, Sentiment_Category |-> s, Local_Category |-> l,
     Topic_Category |-> t, Score |-> sc, ave_sentiment |-> a]

\* PostRecord rows a loaded scatter_analysis.csv may hold
PostRows ==
    { PostRow("dem", "positive", "local",     "politics", 5, 1),
      PostRow("rep", "negative", "non_local", "politics", 3, 0),
      PostRow("dem", "negative", Null,        "economy",  4, 0),
      PostRow("rep", "positive", "local",     "economy",  4, 1),
      PostRow("dem", "positive", "non_local", "economy",  3, 1) }

\* the one-row tables paired with the varied table of the other pipeline
OneDomainTable == <<DomainRow(a_com, "Democrat", "positive", "all", "politics", 5, 10)>>
OnePostTable   == <<PostRow("dem", "positive", "local", "politics", 5, 1)>>

\* load_data: the pairs of tables the two CSV files may hold
load_data ==
    {<<d, OnePostTable>> : d \in SeqsUpTo(DomainRows, MaxRows)}
      \cup {<<OneDomainTable, p>> : p \in SeqsUpTo(PostRows, MaxRows)}

\* the free texts typed into the domain search box
SearchTexts == {NoText, a_com}

----------------------------------------------------------------------------
(* Filter engine *)

DomainAnalysis == "Domain Analysis"
ArticlesAnalysis == "Articles Analysis"
Pages == {DomainAnalysis, ArticlesAnalysis}

Scores(df) == {r.Score : r \in Range(df)}

\* the score cut applied by a mask computed on one frame and used, by position,
\* on the frame already cut by score
filter_dataframe_positional_mask(df, f) ==
    LET in_range(r) == r.Score >= f.score_range[1] /\ r.Score <= f.score_range[2]
        by_score == SelectSeq(df, in_range)
        wanted == IF f.local_cat # All THEN f.local_cat ELSE "all"
        kept == {i \in 1..Len(by_score) : df[i].Local_Category = wanted}
        RECURSIVE pick(_)
        pick(i) == IF i > Len(by_score) THEN <<>>
                   ELSE (IF i \in kept THEN <<by_score[i]>> ELSE <<>>) \o pick(i + 1)
        others(r) ==
            /\ f.party # All => r.Global_Classification = f.party
            /\ f.sentiment # All => r.Sentiment = f.sentiment
            /\ f.topic # All => r.Topic_Category = f.topic
    IN  SelectSeq(pick(1), others)

\* the else branch of the local_cat test left out
filter_dataframe_no_default(df, f) ==
    LET in_range(r) == r.Score >= f.score_range[1] /\ r.Score <= f.score_range[2]
        categorical(r) ==
            /\ f.party # All => r.Global_Classification = f.party
            /\ f.sentiment # All => r.Sentiment = f.sentiment
            /\ f.local_cat # All => r.Local_Category = f.local_cat
            /\ f.topic # All => r.Topic_Category = f.topic
    IN  SelectSeq(SelectSeq(df, in_range), categorical)

\* the upper score bound taken exclusive
filter_dataframe_open_bound(df, f) ==
    LET keep(r) ==
            /\ r.Score >= f.score_range[1] /\ r.Score < f.score_range[2]
            /\ f.party # All => r.Global_Classification = f.party
            /\ f.sentiment # All => r.Sentiment = f.sentiment
            /\ r.Local_Category = (IF f.local_cat # All THEN f.local_cat ELSE "all")
            /\ f.topic # All => r.Topic_Category = f.topic
    IN  SelectSeq(df, keep)

filter_dataframe(df, f) ==
    LET in_range(r) == r.Score >= f.score_range[1] /\ r.Score <= f.score_range[2]
        is_party(r) == r.Global_Classification = f.party
        is_sentiment(r) == r.Sentiment = f.sentiment
        is_local(r) == r.Local_Category = f.local_cat
        is_all(r) == r.Local_Category = "all"
        is_topic(r) == r.Topic_Category = f.topic
        df1 == SelectSeq(df, in_range)
        df2 == IF f.party # All THEN SelectSeq(df1, is_party) ELSE df1
        df3 == IF f.sentiment # All THEN SelectSeq(df2, is_sentiment) ELSE df2
        df4 == IF f.local_cat # All THEN SelectSeq(df3, is_local)
               ELSE SelectSeq(df3, is_all)
        df5 == IF f.topic # All THEN SelectSeq(df4, is_topic) ELSE df4
    IN  df5

\* the source frame after filter_dataframe filtered it in place
filter_dataframe_in_place(df, f) == filter_dataframe(df, f)

\* df as filter_dataframe leaves it: it works on df.copy()
domain_source_after(df, f) == df

\* the inline filter of run_posts_analysis
posts_filter(df, f) ==
    LET in_range(r) == r.Score >= f.score_range[1] /\ r.Score <= f.score_range[2]
        is_party(r) == r.party = f.party
        is_sentiment(r) == r.Sentiment_Category = f.sentiment
        is_local(r) == r.Local_Category = f.local_cat
        is_topic(r) == r.Topic_Category = f.topic
        p1 == SelectSeq(df, in_range)
        p2 == IF f.party # All THEN SelectSeq(p1, is_party) ELSE p1
        p3 == IF f.sentiment # All THEN SelectSeq(p2, is_sentiment) ELSE p2
        p4 == IF f.local_cat # All THEN SelectSeq(p3, is_local) ELSE p3
        p5 == IF f.topic # All THEN SelectSeq(p4, is_topic) ELSE p4
    IN  p5

\* posts_df as run_posts_analysis leaves it: boolean indexing and groupby build
\* new frames, and the columns are added to sunburst_data
posts_source_after(df, f) == df

----------------------------------------------------------------------------
(* Domain search *)

\* re.search(pat, s, re.IGNORECASE) for a pattern of literal characters and dots
str_contains(s, pat) ==
    \E i \in 1..(Len(s) - Len(pat) + 1) :
        \A j \in 1..Len(pat) :
            pat[j] = "." \/ Lower(pat[j]) = Lower(s[i + j - 1])

\* filtered_df["Domain"].unique()
all_domains(df) == {r.Domain : r \in Range(df)}

domain_search(df, st, ed) ==
    LET hit(r) == str_contains(r.Domain, st)
        exact(r) == r.Domain = ed
        s1 == IF st # NoText THEN SelectSeq(df, hit) ELSE df
        s2 == IF ed # NoText THEN SelectSeq(s1, exact) ELSE s1
    IN  s2

----------------------------------------------------------------------------
(* Aggregation engine *)

DemLabels == {"Democrat", "Democratic", "dem"}
RepLabels == {"Republican", "rep"}

\* ["Combination_Total_Count"].sum() over the rows of df
CountSum(df) == SeqSum([i \in 1..Len(df) |-> df[i].Combination_Total_Count])

\* the "sum" aggregate taken as a row count
total_articles_as_count(df, d) ==
    LET of_domain(r) == r.Domain = d
    IN  Len(SelectSeq(df, of_domain))

\* groupby("Domain")["Combination_Total_Count"] "sum", for the group d
total_articles(df, d) ==
    LET of_domain(r) == r.Domain = d
    IN  CountSum(SelectSeq(df, of_domain))

\* the isin list without the short label
dem_counts_without_dem(df) ==
    LET is_dem(r) == r.Global_Classification \in {"Democrat", "Democratic"}
        rows == SelectSeq(df, is_dem)
    IN  [d \in all_domains(rows) |->
            LET of_domain(r) == r.Domain = d IN CountSum(SelectSeq(rows, of_domain))]

\* dem_counts: a series indexed by the domains that have a Democrat row
dem_counts(df) ==
    LET is_dem(r) == r.Global_Classification \in DemLabels
        rows == SelectSeq(df, is_dem)
    IN  [d \in all_domains(rows) |->
            LET of_domain(r) == r.Domain = d IN CountSum(SelectSeq(rows, of_domain))]

\* rep_counts: a series indexed by the domains that have a Republican row
rep_counts(df) ==
    LET is_rep(r) == r.Global_Classification \in RepLabels
        rows == SelectSeq(df, is_rep)
    IN  [d \in all_domains(rows) |->
            LET of_domain(r) == r.Domain = d IN CountSum(SelectSeq(rows, of_domain))]

\* stats_df["Domain"].map(series).fillna(0).astype(int), for the domain d
map_fillna(series, d) == IF d \in DOMAIN series THEN series[d] ELSE 0

\* sort_values("Total Articles", ascending=False): descending, ties keep their order
RECURSIVE sort_values_desc(_)
sort_values_desc(rows) ==
    IF rows = <<>> THEN <<>>
    ELSE LET top == SetMax({rows[i].Total_Articles : i \in 1..Len(rows)})
             k == SetMin({i \in 1..Len(rows) : rows[i].Total_Articles = top})
         IN  <<rows[k]>> \o
             sort_values_desc(SubSeq(rows, 1, k - 1) \o SubSeq(rows, k + 1, Len(rows)))

\* Average Score, Min Score and Max Score are in hundredths (round(2))
calculate_domain_statistics(df) ==
    LET keys == SortedStrs(all_domains(df))
        group(d) == LET of_domain(r) == r.Domain = d IN SelectSeq(df, of_domain)
        row(d) ==
            LET g == group(d)
                scores == [i \in 1..Len(g) |-> g[i].Score]
            IN  [Domain |-> d,
                 Total_Articles |-> total_articles(df, d),
                 Democrat_Articles |-> map_fillna(dem_counts(df), d),
                 Republican_Articles |-> map_fillna(rep_counts(df), d),
                 Average_Score |-> RoundHalfEven(100 * SeqSum(scores), Len(g)),
                 Min_Score |-> 100 * SetMin(Range(scores)),
                 Max_Score |-> 100 * SetMax(Range(scores)),
                 Party |-> g[1].Global_Classification]
    IN  sort_values_desc([i \in 1..Len(keys) |-> row(keys[i])])

\* a column divided with Python's scalar division, which raises on zero
scalar_division_raises(total) == total = 0

\* sunburst_data['count'] / total: elementwise, never raises
series_division_raises(total) == FALSE

\* (count / total * 100).round(1), in tenths of a percent
percentage(count, total) ==
    IF total = 0 THEN (IF count = 0 THEN Null ELSE "inf")
    ELSE RoundHalfEven(1000 * count, total)

\* groupby([...]).size() drops the rows with a null key; the rows of
\* sunburst_data are kept as a set (their order is the key order)
sunburst(fp, count_all, count_filtered) ==
    LET key(r) == <<r.Topic_Category, r.Local_Category, r.Sentiment_Category, r.party>>
        has_null(r) == \E i \in 1..4 : key(r)[i] = Null
        keyed == {i \in 1..Len(fp) : ~has_null(fp[i])}
        keys == {key(fp[i]) : i \in keyed}
        size(k) == Cardinality({i \in keyed : key(fp[i]) = k})
    IN  {[Topic_Category |-> k[1], Local_Category |-> k[2],
          Sentiment_Category |-> k[3], party |-> k[4],
          count |-> size(k),
          percentage_total |-> percentage(size(k), count_all),
          percentage_filtered |-> percentage(size(k), count_filtered)] : k \in keys}

----------------------------------------------------------------------------
(* The two pages *)

run_domain_analysis(df, f, st, ed) ==
    LET fd == filter_dataframe(df, f)
        view == domain_search(fd, st, ed)
    IN  [source |-> domain_source_after(df, f),
         filtered_df |-> fd,
         domain_view |-> view,
         stats_df |-> calculate_domain_statistics(view)]

run_posts_analysis(df, f) ==
    LET fp == posts_filter(df, f)
        count_all == Len(df)
        count_filtered == Len(fp)
        raised == series_division_raises(count_all)
                    \/ series_division_raises(count_filtered)
    IN  [source |-> posts_source_after(df, f),
         filtered_posts |-> fp,
         total_count_all |-> count_all,
         total_count_filtered |-> count_filtered,
         sunburst_data |-> IF raised THEN {} ELSE sunburst(fp, count_all, count_filtered),
         status |-> IF raised THEN "ZeroDivisionError" ELSE "ok"]

\* the page test reversed
run_dashboard_reversed(pg, ddf, pdf, f, st, ed) ==
    IF pg # DomainAnalysis
    THEN LET out == run_domain_analysis(ddf, f, st, ed)
         IN  [ran |-> "domain", domain_df |-> out.source, posts_df |-> pdf,
              filtered_df |-> out.filtered_df, domain_view |-> out.domain_view,
              stats_df |-> out.stats_df, filtered_posts |-> <<>>,
              total_count_all |-> 0, total_count_filtered |-> 0,
              sunburst_data |-> {}, status |-> "ok"]
    ELSE LET out == run_posts_analysis(pdf, f)
         IN  [ran |-> "posts", domain_df |-> ddf, posts_df |-> out.source,
              filtered_df |-> <<>>, domain_view |-> <<>>, stats_df |-> <<>>,
              filtered_posts |-> out.filtered_posts,
              total_count_all |-> out.total_count_all,
              total_count_filtered |-> out.total_count_filtered,
              sunburst_data |-> out.sunburst_data, status |-> out.status]

\* one re-evaluation of the script: what it leaves of the two tables and what
\* it shows; the page that is not shown computes nothing
run_dashboard(pg, ddf, pdf, f, st, ed) ==
    IF pg = DomainAnalysis
    THEN LET out == run_domain_analysis(ddf, f, st, ed)
         IN  [ran |-> "domain", domain_df |-> out.source, posts_df |-> pdf,
              filtered_df |-> out.filtered_df, domain_view |-> out.domain_view,
              stats_df |-> out.stats_df, filtered_posts |-> <<>>,
              total_count_all |-> 0, total_count_filtered |-> 0,
              sunburst_data |-> {}, status |-> "ok"]
    ELSE LET out == run_posts_analysis(pdf, f)
         IN  [ran |-> "posts", domain_df |-> ddf, posts_df |-> out.source,
              filtered_df |-> <<>>, domain_view |-> <<>>, stats_df |-> <<>>,
              filtered_posts |-> out.filtered_posts,
              total_count_all |-> out.total_count_all,
              total_count_filtered |-> out.total_count_filtered,
              sunburst_data |-> out.sunburst_data, status |-> out.status]

----------------------------------------------------------------------------
(* Widgets *)

\* the slider positions: the whole scores between the table's min and max
slider_ranges(df) ==
    LET grid == SetMin(Scores(df))..SetMax(Scores(df))
    IN  {<<lo, hi>> : lo \in grid, hi \in grid} \ {<<lo, hi>> \in grid \X grid : lo > hi}

\* the value every widget shows when the page is first drawn
default_filters(df) ==
    [score_range |-> <<SetMin(Scores(df)), SetMax(Scores(df))>>,
     party |-> All, sentiment |-> All, local_cat |-> All, topic |-> All]

domain_filter_choices(df) ==
    [score_range |-> slider_ranges(df),
     party |-> {All} \cup {r.Global_Classification : r \in Range(df)},
     sentiment |-> {All} \cup {r.Sentiment : r \in Range(df)},
     local_cat |-> {All, "local", "non_local"},
     topic |-> {All} \cup {r.Topic_Category : r \in Range(df)}]

posts_filter_choices(df) ==
    [score_range |-> slider_ranges(df),
     party |-> {All} \cup {r.party : r \in Range(df)},
     sentiment |-> {All} \cup {r.Sentiment_Category : r \in Range(df)},
     local_cat |-> {All} \cup ({r.Local_Category : r \in Range(df)} \ {Null}),
     topic |-> {All} \cup {r.Topic_Category : r \in Range(df)}]

\* one interaction changes one widget: the settings one widget away from f
one_widget_apart(f, choices) ==
    UNION {{[f EXCEPT ![k] = v] : v \in choices[k] \ {f[k]}} : k \in DOMAIN f}

----------------------------------------------------------------------------
(* The session *)

Shown(out) ==
    /\ domain_df' = out.domain_df
    /\ posts_df' = out.posts_df
    /\ ran' = out.ran
    /\ filtered_df' = out.filtered_df
    /\ domain_view' = out.domain_view
    /\ stats_df' = out.stats_df
    /\ filtered_posts' = out.filtered_posts
    /\ total_count_all' = out.total_count_all
    /\ total_count_filtered' = out.total_count_filtered
    /\ sunburst_data' = out.sunburst_data
    /\ status' = out.status

Rerun(pg, f, st, ed) ==
    /\ page' = pg
    /\ filters' = f
    /\ search_text' = st
    /\ exact_domain' = ed
    /\ Shown(run_dashboard(pg, domain_df, posts_df, f, st, ed))

\* the session starts on the first radio option with every widget at its default
Init ==
    \E tables \in load_data :
        LET f == default_filters(tables[1])
            out == run_dashboard(DomainAnalysis, tables[1], tables[2], f, NoText, NoText)
        IN  /\ domain_df = tables[1]
            /\ posts_df = tables[2]
            /\ page = DomainAnalysis
            /\ filters = f
            /\ search_text = NoText
            /\ exact_domain = NoText
            /\ ran = out.ran
            /\ filtered_df = out.filtered_df
            /\ domain_view = out.domain_view
            /\ stats_df = out.stats_df
            /\ filtered_posts = out.filtered_posts
            /\ total_count_all = out.total_count_all
            /\ total_count_filtered = out.total_count_filtered
            /\ sunburst_data = out.sunburst_data
            /\ status = out.status

\* the radio: the widgets of the page left are dropped, those of the page
\* entered start at their defaults
SelectPage ==
    \E pg \in Pages \ {page} :
        Rerun(pg,
              default_filters(IF pg = DomainAnalysis THEN domain_df ELSE posts_df),
              NoText, NoText)

\* a sidebar widget of the domain page; the exact-domain selectbox keeps its
\* value while its option list is the same and is drawn anew when it changes
ChangeDomainFilter ==
    /\ page = DomainAnalysis
    /\ \E f \in one_widget_apart(filters, domain_filter_choices(domain_df)) :
           LET options == all_domains(filter_dataframe(domain_df, f))
               ed == IF options = all_domains(filtered_df) THEN exact_domain ELSE NoText
           IN  Rerun(page, f, search_text, ed)

TypeSearchText ==
    /\ page = DomainAnalysis
    /\ \E st \in SearchTexts \ {search_text} :
        Rerun(page, filters, st, exact_domain)

SelectExactDomain ==
    /\ page = DomainAnalysis
    /\ \E ed \in ({NoText} \cup all_domains(filtered_df)) \ {exact_domain} :
        Rerun(page, filters, search_text, ed)

\* a sidebar widget of the articles page
ChangePostsFilter ==
    /\ page = ArticlesAnalysis
    /\ \E f \in one_widget_apart(filters, posts_filter_choices(posts_df)) :
        Rerun(page, f, NoText, NoText)

Next ==
    \/ SelectPage
    \/ ChangeDomainFilter
    \/ TypeSearchText
    \/ SelectExactDomain
    \/ ChangePostsFilter

Spec == Init /\ [][Next]_vars

----------------------------------------------------------------------------
(* Properties *)

in_score_range(r) ==
    filters.score_range[1] <= r.Score /\ r.Score <= filters.score_range[2]

domain_selectors_hold(r) ==
    /\ filters.party # All => r.Global_Classification = filters.party
    /\ filters.sentiment # All => r.Sentiment = filters.sentiment
    /\ filters.topic # All => r.Topic_Category = filters.topic

posts_selectors_hold(r) ==
    /\ filters.party # All => r.party = filters.party
    /\ filters.sentiment # All => r.Sentiment_Category = filters.sentiment
    /\ filters.local_cat # All => r.Local_Category = filters.local_cat
    /\ filters.topic # All => r.Topic_Category = filters.topic

posts_rows_kept ==
    page = ArticlesAnalysis =>
        /\ Range(filtered_posts) \subseteq Range(posts_df)
        /\ \A r \in Range(posts_df) :
               r \in Range(filtered_posts) <=> in_score_range(r) /\ posts_selectors_hold(r)

\* C1 as stated: a row is in the filtered result exactly when its Score is in
\* [lo, hi] and it matches every selector that is not "All", the Local_Category
\* selector of the domain page put aside; on the articles page "All" for
\* Local_Category keeps every row, null ones too.
C1_rows_kept_without_local_category ==
    /\ page = DomainAnalysis =>
           /\ Range(filtered_df) \subseteq Range(domain_df)
           /\ \A r \in Range(domain_df) :
                  r \in Range(filtered_df) <=> in_score_range(r) /\ domain_selectors_hold(r)
    /\ posts_rows_kept

\* C1 amended: as above, and on the domain page the row's Local_Category must
\* also equal the selected value, or "all" when the selector is "All".
C1_rows_kept ==
    /\ page = DomainAnalysis =>
           /\ Range(filtered_df) \subseteq Range(domain_df)
           /\ \A r \in Range(domain_df) :
                  r \in Range(filtered_df) <=>
                      /\ in_score_range(r)
                      /\ domain_selectors_hold(r)
                      /\ r.Local_Category =
                            (IF filters.local_cat = All THEN "all" ELSE filters.local_cat)
    /\ posts_rows_kept

C1_witness ==
    /\ page = DomainAnalysis
    /\ filters.party # All
    /\ filters.score_range[1] = filters.score_range[2]
    /\ filtered_df # <<>>
    /\ Len(filtered_df) < Len(domain_df)

\* C2: on the domain page local_cat = "All" leaves only rows tagged "all", and a
\* specific local_cat leaves only rows with that value, so none tagged "all".
C2_local_category_default ==
    page = DomainAnalysis =>
        /\ filters.local_cat = All =>
               \A r \in Range(filtered_df) : r.Local_Category = "all"
        /\ filters.local_cat # All =>
               \A r \in Range(filtered_df) :
                   r.Local_Category = filters.local_cat /\ r.Local_Category # "all"

C2_witness ==
    /\ page = DomainAnalysis
    /\ filters = default_filters(domain_df)
    /\ filtered_df # <<>>
    /\ \E r \in Range(domain_df) : r.Local_Category # "all"

\* the sum of f over the set S
RECURSIVE SetSum(_, _)
SetSum(S, f) ==
    IF S = {} THEN 0
    ELSE LET x == CHOOSE y \in S : TRUE
         IN  f[x] + SetSum(S \ {x}, f)

Abs(n) == IF n < 0 THEN -n ELSE n

\* C3: when the filtered articles are not empty the sunburst groups count every
\* filtered row, and their percentage_filtered add up to 100.0 within the
\* rounding error of one decimal per group (0.05 each).
C3_percentages_sum_to_100 ==
    (page = ArticlesAnalysis /\ total_count_filtered > 0) =>
        LET count == [g \in sunburst_data |-> g.count]
            pct == [g \in sunburst_data |-> g.percentage_filtered]
        IN  /\ SetSum(sunburst_data, count) = total_count_filtered
            /\ 2 * Abs(SetSum(sunburst_data, pct) - 1000) <= Cardinality(sunburst_data)

\* the search text is in s as it stands, letter case put aside
literal_substring(s, text) ==
    \E i \in 1..(Len(s) - Len(text) + 1) :
        \A j \in 1..Len(text) : Lower(text[j]) = Lower(s[i + j - 1])

\* C4: the rows given to the domain statistics are the filtered rows whose
\* Domain holds the search text as a literal substring in any letter case (when
\* a text is typed) and equals the exact domain (when one is selected).
C4_search_is_literal_substring ==
    page = DomainAnalysis =>
        LET keep(r) ==
                /\ search_text # NoText => literal_substring(r.Domain, search_text)
                /\ exact_domain # NoText => r.Domain = exact_domain
        IN  domain_view = SelectSeq(filtered_df, keep)

\* Combination_Total_Count added up over the rows of df at the positions idx
counts_at(df, idx) == SetSum(idx, [k \in idx |-> df[k].Combination_Total_Count])

\* the positions of the rows of the statistics' input
view_rows == 1..Len(domain_view)

\* C5: the statistics have one row per distinct Domain of their input, Total
\* Articles is the sum of Combination_Total_Count over the domain's rows, and
\* the totals add up to the sum over all input rows.
C5_total_articles ==
    page = DomainAnalysis =>
        /\ Len(stats_df) = Cardinality(all_domains(domain_view))
        /\ {stats_df[i].Domain : i \in 1..Len(stats_df)} = all_domains(domain_view)
        /\ \A i \in 1..Len(stats_df) :
               stats_df[i].Total_Articles =
                   counts_at(domain_view,
                             {k \in view_rows : domain_view[k].Domain = stats_df[i].Domain})
        /\ SeqSum([i \in 1..Len(stats_df) |-> stats_df[i].Total_Articles])
             = counts_at(domain_view, view_rows)

C5_witness ==
    /\ page = DomainAnalysis
    /\ Len(stats_df) >= 1
    /\ Len(domain_view) > Len(stats_df)
    /\ \E i \in 1..Len(stats_df) :
           stats_df[i].Total_Articles > domain_view[1].Combination_Total_Count

\* C6: Democrat Articles is the sum over the domain's rows labelled Democrat,
\* Democratic or dem, Republican Articles the sum over those labelled Republican
\* or rep, 0 when there is none; together they never exceed Total Articles and
\* fall short of it by the rows with any other label.
C6_party_articles ==
    page = DomainAnalysis =>
        \A i \in 1..Len(stats_df) :
            LET d == stats_df[i].Domain
                mine == {k \in view_rows : domain_view[k].Domain = d}
                dem == {k \in mine : domain_view[k].Global_Classification
                                        \in {"Democrat", "Democratic", "dem"}}
                rep == {k \in mine : domain_view[k].Global_Classification
                                        \in {"Republican", "rep"}}
            IN  /\ stats_df[i].Democrat_Articles = counts_at(domain_view, dem)
                /\ stats_df[i].Republican_Articles = counts_at(domain_view, rep)
                /\ stats_df[i].Democrat_Articles + stats_df[i].Republican_Articles
                     <= stats_df[i].Total_Articles
                /\ stats_df[i].Total_Articles
                     - (stats_df[i].Democrat_Articles + stats_df[i].Republican_Articles)
                     = counts_at(domain_view, mine \ (dem \cup rep))

C6_witness ==
    /\ page = DomainAnalysis
    /\ \E i \in 1..Len(stats_df) :
           stats_df[i].Democrat_Articles > 0 /\ stats_df[i].Republican_Articles = 0
    /\ \E i \in 1..Len(stats_df) :
           stats_df[i].Democrat_Articles + stats_df[i].Republican_Articles
             < stats_df[i].Total_Articles

\* C7: filtering the filtered rows again with the same criteria changes nothing,
\* on both pages.
C7_filter_idempotent ==
    /\ page = DomainAnalysis => filter_dataframe(filtered_df, filters) = filtered_df
    /\ page = ArticlesAnalysis => posts_filter(filtered_posts, filters) = filtered_posts

C7_witness ==
    /\ page = DomainAnalysis
    /\ filters.local_cat = All
    /\ filters.sentiment # All
    /\ filtered_df # <<>>
    /\ Len(filtered_df) < Len(domain_df)

====
